---- MODULE Spec2Model ----
(***************************************************************************)
(* The alternate-content-source download orchestrator                      *)
(* (pulp.server.content.sources.warehouse): ContentWarehouse.download(),   *)
(* ContentWarehouse.refresh(), cancel()/reset() and the NectarListener     *)
(* bridge that turns transport events into Request updates and Listener    *)
(* notifications.                                                          *)
(*                                                                         *)
(* One run of one public operation (download or refresh) is modelled,      *)
(* together with a second thread that may call cancel() and a transport    *)
(* that delivers started / succeeded / failed events for dispatched jobs.  *)
(***************************************************************************)
EXTENDS Integers, Sequences, FiniteSets, TLC

\* ------------------------------------------------------------- bounds
NumSources == 2
NumRequests == 2

\* ------------------------------------------------------------- domains
Sources == 1..NumSources
Requests == 1..NumRequests
\* ContentSource.priority of the registered sources.  Priorities are only ever
\* compared with each other, so they are drawn as ranks: the values used are
\* 1..k for some k, which gives every order of the sources, ties included.
PriorityMaps ==
    {p \in [Sources -> 1..NumSources] :
        \A v \in 1..NumSources :
            (\E s \in Sources : p[s] = v) =>
                \A w \in 1..v : \E s \in Sources : p[s] = w}
\* The id of a content source that is no longer registered: the catalog may
\* still hold entries under it.
Unregistered == {NumSources + 1}
CatalogIds == Sources \cup Unregistered
\* The PrimarySource wrapping the caller's downloader.
Primary == 0
AllSources == Sources \cup {Primary}
\* request_list, a list of distinct Request objects; the unit of Request r is r.
request_list == [i \in 1..NumRequests |-> i]
\* The caller's Listener: each of its callbacks raises when called for one of
\* these Requests and returns when called for another.
RaisingFor == {1}
\* The text of an exception raised by a content source's refresh().
ExcText == "refresh failed"
\* The sets of units a content source may hold catalog entries for: none,
\* the unit of the first Request only, or the units of all Requests.
UnitSets == {{}, {1}, Requests}

VARIABLES
    op,          \* the public operation of this run: "download" or "refresh"
    force,       \* refresh(force)
    hasListener, \* ContentWarehouse.listener is not None
    priority,    \* ContentSource.priority of the registered sources
    catalog,     \* catalog entries: source id -> units with an entry
    stale,       \* source ids whose entries have outlived the source's expires
    cancelled,   \* ContentWarehouse.cancelled
    pc,          \* position of the thread running the operation
    pending,     \* refresh(): sources the loop has not visited yet
    reports,     \* refresh(): the local list "reports"
    result,      \* refresh(): what it returned, and whether it purged
    visited,     \* history: what refresh()'s loop did with each source
    candidates,  \* Request: ordered list of (source, url) candidates
    cursor,      \* Request: number of candidates consumed by next_source()
    downloaded,  \* Request.downloaded
    errors,      \* Request.errors
    collation,   \* download(): (source -> job list) pairs not yet dispatched
    cur,         \* download(): the source whose downloader is dispatching
    job,         \* transport: state of the job of each Request in the batch
    dlCancelled, \* transport: cancel() was invoked on the bound downloader
    round,       \* number of collations dispatched so far
    dispatched,  \* history: per Request, the (source, round) dispatches
    notified,    \* history: per Request, the Listener calls received
    escaped,     \* an exception of the Listener has left the bridge
    cancelPoint  \* history: where the run was when cancel() was last called,
                 \* and the sources whose pair was still to be dispatched

vars == <<op, force, hasListener, priority, catalog, stale, cancelled, pc,
          pending,
          reports, result, visited, candidates,
          cursor, downloaded, errors, collation,
          cur, job, dlCancelled, round, dispatched, notified, escaped,
          cancelPoint>>

refreshVars == <<pending, reports, result, visited>>
requestVars == <<candidates, cursor, downloaded, errors>>
roundVars == <<collation, cur, job, dlCancelled, round, dispatched>>
configVars == <<op, force, hasListener, priority>>
listenerVars == <<notified, escaped>>
catalogVars == <<catalog, stale>>

NoCancel == [pc |-> "never", round |-> 0, left |-> {}]
NoResult == [kind |-> "pending", reports |-> <<>>, purged |-> FALSE]
NotVisited == [s \in Sources |-> "no"]
NoCalls == [started |-> 0, succeeded |-> 0, failed |-> 0]

Init ==
    /\ op \in {"download", "refresh", "purge_orphans"}
    /\ force \in BOOLEAN
    /\ (op # "refresh" => force = FALSE)
    \* Only download() takes a listener and only its candidate lists read a
    \* priority: the other operations run without the one and with the
    \* sources level.
    /\ hasListener \in BOOLEAN
    /\ priority \in PriorityMaps
    /\ (op # "download" =>
            hasListener = FALSE /\ priority = [s \in Sources |-> 1])
    /\ catalog \in [CatalogIds -> UnitSets]
    \* refresh() and download() query the catalog per registered source, so
    \* orphaned entries are held in the runs of purge_orphans() only.
    /\ (op # "purge_orphans" => \A s \in Unregistered : catalog[s] = {})
    /\ stale = {}
    /\ cancelled \in BOOLEAN
    /\ pc = "idle"
    /\ pending = {}
    /\ reports = <<>>
    /\ result = NoResult
    /\ visited = NotVisited
    /\ candidates = [r \in Requests |-> <<>>]
    /\ cursor = [r \in Requests |-> 0]
    /\ downloaded = [r \in Requests |-> FALSE]
    /\ errors = [r \in Requests |-> <<>>]
    /\ collation = <<>>
    /\ cur = Primary
    /\ job = [r \in Requests |-> "none"]
    /\ dlCancelled = FALSE
    /\ round = 0
    /\ dispatched = [r \in Requests |-> <<>>]
    /\ notified = [r \in Requests |-> NoCalls]
    /\ escaped = FALSE
    /\ cancelPoint = NoCancel

\* ------------------------------------------------------------- catalog
\* The entries of a source are written together by its refresh(), so they
\* outlive the source's expires window together.
fresh_entries(s) == IF s \in stale THEN {} ELSE catalog[s]

\* catalog.has_entries(source_id): some fresh entry exists for the source.
has_entries(s) == fresh_entries(s) # {}

\* catalog.purge_expired(): the entries older than their source's expires
\* window are removed.
purge_expired(c) == [s \in DOMAIN c |-> IF s \in stale THEN {} ELSE c[s]]

\* Time passes before the operation is called: the entries of source s
\* outlive its expires window.
expire(s) ==
    /\ pc = "idle"
    /\ catalog[s] # {}
    /\ s \notin stale
    /\ stale' = stale \cup {s}
    /\ UNCHANGED <<configVars, catalog, cancelled, pc, refreshVars,
                   requestVars, roundVars, listenerVars, cancelPoint>>

\* catalog.purge_orphans(valid_ids): the entries kept are those whose source
\* id is among valid_ids.
catalog_purge_orphans(c, ids) ==
    [s \in DOMAIN c |-> IF s \in ids THEN c[s] ELSE {}]

\* ------------------------------------------------------------- Request
None == [source |-> -1, url |-> <<>>]

\* Order of two registered sources: ascending priority, ties by id.
Before(a, b) ==
    \/ priority[a] < priority[b]
    \/ priority[a] = priority[b] /\ a <= b

RECURSIVE SortedByPriority(_)
SortedByPriority(S) ==
    IF S = {} THEN <<>>
    ELSE LET first == CHOOSE a \in S : \A b \in S : Before(a, b)
         IN <<first>> \o SortedByPriority(S \ {first})

\* Request.find_sources(primary, sources): the registered sources holding a
\* fresh catalog entry for the unit, in priority order, then the primary.
find_sources(r) ==
    LET alternates ==
            SortedByPriority({s \in Sources : r \in fresh_entries(s)})
    IN [i \in 1..Len(alternates) |->
            [source |-> alternates[i], url |-> <<alternates[i], r>>]]
       \o <<[source |-> Primary, url |-> <<Primary, r>>]>>

\* Request.has_source()
has_source(r) == cursor[r] < Len(candidates[r])

\* Request.next_source(): the candidate returned ...
next_source(r) ==
    IF downloaded[r] \/ ~has_source(r) THEN None
    ELSE candidates[r][cursor[r] + 1]

\* ... and the cursor it leaves behind.
cursor_after_next_source(r) ==
    IF downloaded[r] \/ ~has_source(r) THEN cursor[r] ELSE cursor[r] + 1

\* ------------------------------------------------------------- cancel / reset
reset == cancelled' = FALSE

cancel ==
    /\ pc \notin {"idle", "done"}
    /\ ~cancelled
    /\ cancelled' = TRUE
    /\ cancelPoint' = [pc |-> pc, round |-> round, left |-> DOMAIN collation]
    /\ UNCHANGED <<configVars, catalogVars, pc, refreshVars, requestVars,
                   roundVars, listenerVars>>

\* ------------------------------------------------------------- refresh()
RefreshReport(source_id, errs) == [source_id |-> source_id, errors |-> errs]

after_refresh == IF op = "download" THEN "find_sources" ELSE "done"

\* reports = []; self.reset(); catalog = ...
refresh_entry ==
    /\ \/ pc = "refresh_entry"
       \/ pc = "idle" /\ op = "refresh"
    /\ reports' = <<>>
    /\ reset
    /\ pending' = Sources
    /\ pc' = "refresh_loop"
    /\ UNCHANGED <<configVars, catalogVars, result, visited, requestVars,
                   roundVars, listenerVars, cancelPoint>>

\* The loop iteration without the try/except: what source.refresh() raises
\* leaves refresh().
refresh_source_uncaught(s) ==
    /\ pc = "refresh_loop"
    /\ s \in pending
    /\ ~cancelled
    /\ pending' = pending \ {s}
    /\ IF force \/ ~has_entries(s)
       THEN \/ \E advertised \in UnitSets :
                 /\ catalog' = [catalog EXCEPT ![s] = advertised]
                 /\ stale' = stale \ {s}
                 /\ reports' = reports \o <<RefreshReport(s, <<>>)>>
                 /\ visited' = [visited EXCEPT ![s] = "refreshed"]
                 /\ UNCHANGED <<pc, result>>
            \/ /\ visited' = [visited EXCEPT ![s] = "raised"]
               /\ result' = [kind |-> "raised", reports |-> <<>>,
                              purged |-> FALSE]
               /\ pc' = "done"
               /\ UNCHANGED <<catalogVars, reports>>
       ELSE /\ visited' = [visited EXCEPT ![s] = "skipped"]
            /\ UNCHANGED <<catalogVars, reports, pc, result>>
    /\ UNCHANGED <<configVars, cancelled, requestVars, roundVars,
                   listenerVars, cancelPoint>>

\* The loop iteration that looks at the catalog only, whatever force says.
refresh_source_unforced(s) ==
    /\ pc = "refresh_loop"
    /\ s \in pending
    /\ ~cancelled
    /\ pending' = pending \ {s}
    /\ IF ~has_entries(s)
       THEN \/ \E advertised \in UnitSets :
                 /\ catalog' = [catalog EXCEPT ![s] = advertised]
                 /\ stale' = stale \ {s}
                 /\ reports' = reports \o <<RefreshReport(s, <<>>)>>
                 /\ visited' = [visited EXCEPT ![s] = "refreshed"]
            \/ /\ reports' = Append(reports, RefreshReport(s, <<ExcText>>))
               /\ visited' = [visited EXCEPT ![s] = "raised"]
               /\ UNCHANGED catalogVars
       ELSE /\ visited' = [visited EXCEPT ![s] = "skipped"]
            /\ UNCHANGED <<catalogVars, reports>>
    /\ UNCHANGED <<configVars, cancelled, pc, result, requestVars, roundVars,
                   listenerVars, cancelPoint>>

\* One iteration of the loop over self.sources.items() that does not see
\* the cancelled flag.
refresh_source(s) ==
    /\ pc = "refresh_loop"
    /\ s \in pending
    /\ ~cancelled
    /\ pending' = pending \ {s}
    /\ IF force \/ ~has_entries(s)
       THEN \/ \E advertised \in UnitSets :
                 \* source.refresh() rewrites the source's entries
                 /\ catalog' = [catalog EXCEPT ![s] = advertised]
                 /\ stale' = stale \ {s}
                 /\ reports' = reports \o <<RefreshReport(s, <<>>)>>
                 /\ visited' = [visited EXCEPT ![s] = "refreshed"]
            \/ \* source.refresh() raises
               /\ reports' = Append(reports, RefreshReport(s, <<ExcText>>))
               /\ visited' = [visited EXCEPT ![s] = "raised"]
               /\ UNCHANGED catalogVars
       ELSE /\ visited' = [visited EXCEPT ![s] = "skipped"]
            /\ UNCHANGED <<catalogVars, reports>>
    /\ UNCHANGED <<configVars, cancelled, pc, result, requestVars, roundVars,
                   listenerVars, cancelPoint>>

\* if self.cancelled: return
refresh_cancelled ==
    /\ pc = "refresh_loop"
    /\ pending # {}
    /\ cancelled
    /\ result' = [kind |-> "none", reports |-> <<>>, purged |-> FALSE]
    /\ pc' = after_refresh
    /\ UNCHANGED <<configVars, catalogVars, cancelled, pending, reports, visited,
                   requestVars, roundVars, listenerVars, cancelPoint>>

\* The end of refresh() without the sweep.
refresh_finish_unpurged ==
    /\ pc = "refresh_loop"
    /\ pending = {}
    /\ result' = [kind |-> "list", reports |-> reports, purged |-> FALSE]
    /\ pc' = after_refresh
    /\ UNCHANGED <<configVars, catalogVars, cancelled, pending, reports, visited,
                   requestVars, roundVars, listenerVars, cancelPoint>>

\* catalog.purge_expired(); return reports
refresh_finish ==
    /\ pc = "refresh_loop"
    /\ pending = {}
    /\ catalog' = purge_expired(catalog)
    /\ stale' = {}
    /\ result' = [kind |-> "list", reports |-> reports, purged |-> TRUE]
    /\ pc' = after_refresh
    /\ UNCHANGED <<configVars, cancelled, pending, reports, visited,
                   requestVars, roundVars, listenerVars, cancelPoint>>

\* ------------------------------------------------------------- purge_orphans()
\* A call that hands the catalog no id at all.
valid_ids_none == {}

\* valid_ids = list(self.sources.keys())
valid_ids == Sources

\* purge_orphans(): the catalog is told which ids are registered; the
\* registry is only read.
purge_orphans ==
    /\ pc = "idle"
    /\ op = "purge_orphans"
    /\ catalog' = catalog_purge_orphans(catalog, valid_ids)
    /\ stale' = stale \cap valid_ids
    /\ pc' = "done"
    /\ UNCHANGED <<configVars, cancelled, refreshVars, requestVars, roundVars,
                   listenerVars, cancelPoint>>

\* ------------------------------------------------------------- download()
\* download() that goes to the candidate lists without the refresh() pass.
download_entry_unrefreshed ==
    /\ pc = "idle"
    /\ op = "download"
    /\ reset
    /\ pc' = "find_sources"
    /\ UNCHANGED <<configVars, catalogVars, refreshVars, requestVars, roundVars,
                   listenerVars, cancelPoint>>

\* self.reset(), then the call of self.refresh()
download_entry ==
    /\ pc = "idle"
    /\ op = "download"
    /\ reset
    /\ pc' = "refresh_entry"
    /\ UNCHANGED <<configVars, catalogVars, refreshVars, requestVars, roundVars,
                   listenerVars, cancelPoint>>

\* download() that calls reset() once more when refresh() has returned.
resolve_sources_resetting ==
    /\ pc = "find_sources"
    /\ reports' = <<>>
    /\ result' = NoResult
    /\ visited' = NotVisited
    /\ candidates' = [r \in Requests |-> find_sources(r)]
    /\ reset
    /\ pc' = "loop_test"
    /\ UNCHANGED <<configVars, catalogVars, pending, cursor,
                   downloaded, errors, roundVars, listenerVars, cancelPoint>>

\* self.refresh() has returned and its value is dropped;
\* primary = PrimarySource(downloader); request.find_sources(...) for each
resolve_sources ==
    /\ pc = "find_sources"
    /\ reports' = <<>>
    /\ result' = NoResult
    /\ visited' = NotVisited
    /\ candidates' = [r \in Requests |-> find_sources(r)]
    /\ pc' = "loop_test"
    /\ UNCHANGED <<configVars, catalogVars, cancelled, pending, cursor,
                   downloaded, errors, roundVars, listenerVars, cancelPoint>>

\* A loop that goes on to the next collation whatever the flag says.
loop_test_unchecked ==
    /\ pc = "loop_test"
    /\ pc' = "collate"
    /\ UNCHANGED <<configVars, catalogVars, cancelled, refreshVars, requestVars,
                   roundVars, listenerVars, cancelPoint>>

\* while not self.cancelled:
loop_test ==
    /\ pc = "loop_test"
    /\ pc' = IF cancelled THEN "done" ELSE "collate"
    /\ UNCHANGED <<configVars, catalogVars, cancelled, refreshVars, requestVars,
                   roundVars, listenerVars, cancelPoint>>

\* collated() without "if request.downloaded: continue", reading the candidate
\* under the cursor itself.
collated_keeps_downloaded ==
    LET keys == {candidates[r][cursor[r] + 1].source :
                    r \in {q \in Requests : has_source(q)}}
        jobsOf(s) ==
            LET rs == SelectSeq(request_list,
                        LAMBDA r : /\ has_source(r)
                                   /\ candidates[r][cursor[r] + 1].source = s)
            IN [i \in 1..Len(rs) |->
                    [url |-> candidates[rs[i]][cursor[rs[i]] + 1].url,
                     data |-> rs[i]]]
    IN [s \in keys |-> jobsOf(s)]

\* collated() that makes the source's list before it looks at
\* request.downloaded: a source wanted by downloaded Requests only is mapped
\* to an empty list.
collated_with_empty_lists ==
    LET wanted(r) == ~downloaded[r] /\ next_source(r) # None
        keys == {candidates[r][cursor[r] + 1].source :
                    r \in {q \in Requests : has_source(q)}}
        jobsOf(s) ==
            LET rs == SelectSeq(request_list,
                                LAMBDA r : wanted(r) /\ next_source(r).source = s)
            IN [i \in 1..Len(rs) |->
                    [url |-> next_source(rs[i]).url, data |-> rs[i]]]
    IN [s \in keys |-> jobsOf(s)]

\* ContentWarehouse.collated(request_list): the dictionary it returns.
collated ==
    LET wanted(r) == ~downloaded[r] /\ next_source(r) # None
        keys == {next_source(r).source : r \in {q \in Requests : wanted(q)}}
        jobsOf(s) ==
            LET rs == SelectSeq(request_list,
                                LAMBDA r : wanted(r) /\ next_source(r).source = s)
            IN [i \in 1..Len(rs) |->
                    [url |-> next_source(rs[i]).url, data |-> rs[i]]]
    IN [s \in keys |-> jobsOf(s)]

\* A collation pass that leaves every cursor where it was.
cursor_stuck == cursor

\* The cursors collated() leaves behind.
cursor_after_collated ==
    [r \in Requests |->
        IF downloaded[r] THEN cursor[r] ELSE cursor_after_next_source(r)]

\* A collation pass that calls next_source() twice for a Request and uses the
\* second answer.
collate_skipping ==
    /\ pc = "collate"
    /\ LET second(r) == IF cursor[r] + 1 < Len(candidates[r])
                        THEN candidates[r][cursor[r] + 2] ELSE None
           wanted(r) == ~downloaded[r] /\ second(r) # None
           keys == {second(r).source : r \in {q \in Requests : wanted(q)}}
           jobsOf(s) ==
               LET rs == SelectSeq(request_list,
                            LAMBDA r : wanted(r) /\ second(r).source = s)
               IN [i \in 1..Len(rs) |->
                       [url |-> second(rs[i]).url, data |-> rs[i]]]
       IN /\ collation' = [s \in keys |-> jobsOf(s)]
          /\ cursor' = [r \in Requests |->
                 IF downloaded[r] THEN cursor[r]
                 ELSE IF cursor[r] + 2 <= Len(candidates[r]) THEN cursor[r] + 2
                 ELSE Len(candidates[r])]
          /\ IF keys = {}
             THEN pc' = "done" /\ UNCHANGED round
             ELSE pc' = "dispatch" /\ round' = round + 1
    /\ UNCHANGED <<configVars, catalogVars, cancelled, refreshVars, candidates,
                   downloaded, errors, cur, job, dlCancelled, dispatched,
                   listenerVars, cancelPoint>>

\* collated = self.collated(request_list); if not collated: break
collate ==
    /\ pc = "collate"
    /\ collation' = collated
    /\ cursor' = cursor_after_collated
    /\ IF DOMAIN collated = {}
       THEN pc' = "done" /\ UNCHANGED round
       ELSE pc' = "dispatch" /\ round' = round + 1
    /\ UNCHANGED <<configVars, catalogVars, cancelled, refreshVars, candidates,
                   downloaded, errors, cur, job, dlCancelled, dispatched,
                   listenerVars, cancelPoint>>

\* The Requests of a job list.
batch_of(nectar_list) == {nectar_list[i].data : i \in DOMAIN nectar_list}

\* One (source, nectar_list) pair of the collation: bind a NectarListener to
\* the source's downloader and call downloader.download(nectar_list).
dispatch(source) ==
    /\ pc = "dispatch"
    /\ source \in DOMAIN collation
    /\ cur' = source
    /\ dlCancelled' = FALSE
    /\ job' = [r \in Requests |->
                 IF r \in batch_of(collation[source]) THEN "queued" ELSE "none"]
    /\ dispatched' = [r \in Requests |->
                 IF r \in batch_of(collation[source])
                 THEN Append(dispatched[r], [source |-> source, round |-> round])
                 ELSE dispatched[r]]
    /\ collation' = [s \in DOMAIN collation \ {source} |-> collation[s]]
    /\ pc' = "in_dispatch"
    /\ UNCHANGED <<configVars, catalogVars, cancelled, refreshVars, requestVars,
                   round, listenerVars, cancelPoint>>

\* A loop body that ends with a break: download() returns after the first
\* round's last dispatch.
dispatch_return_breaking ==
    /\ pc = "in_dispatch"
    /\ \/ \A r \in Requests : job[r] \in {"none", "done"}
       \/ dlCancelled
    /\ job' = [r \in Requests |-> "none"]
    /\ cur' = Primary
    /\ dlCancelled' = FALSE
    /\ pc' = IF DOMAIN collation = {} THEN "done" ELSE "dispatch"
    /\ UNCHANGED <<configVars, catalogVars, cancelled, refreshVars, requestVars,
                   collation, round, dispatched, listenerVars, cancelPoint>>

\* A for loop that looks at the flag between two pairs and leaves the pairs
\* still to be dispatched when it is set.
dispatch_return_checking ==
    /\ pc = "in_dispatch"
    /\ \/ \A r \in Requests : job[r] \in {"none", "done"}
       \/ dlCancelled
    /\ job' = [r \in Requests |-> "none"]
    /\ cur' = Primary
    /\ dlCancelled' = FALSE
    /\ collation' = IF cancelled THEN <<>> ELSE collation
    /\ pc' = IF DOMAIN collation = {} \/ cancelled
             THEN "loop_test" ELSE "dispatch"
    /\ UNCHANGED <<configVars, catalogVars, cancelled, refreshVars, requestVars,
                   round, dispatched, listenerVars, cancelPoint>>

\* downloader.download(nectar_list) returns: every job of the batch has had
\* its outcome delivered, or the downloader was told to cancel.
dispatch_return ==
    /\ pc = "in_dispatch"
    /\ \/ \A r \in Requests : job[r] \in {"none", "done"}
       \/ dlCancelled
    /\ job' = [r \in Requests |-> "none"]
    /\ cur' = Primary
    /\ dlCancelled' = FALSE
    /\ pc' = IF DOMAIN collation = {} THEN "loop_test" ELSE "dispatch"
    /\ UNCHANGED <<configVars, catalogVars, cancelled, refreshVars, requestVars,
                   collation, round, dispatched, listenerVars, cancelPoint>>

\* ------------------------------------------------------------- NectarListener
\* _notify() without the try/except: what the Listener raises travels up
\* into the transport that delivered the event.
notify_uncaught(method, r) ==
    /\ notified' = [notified EXCEPT ![r][method] = @ + 1]
    /\ escaped' = (escaped \/ r \in RaisingFor)

\* NectarListener._notify(method, request): the Listener is called; what it
\* raises is caught and logged, which leaves no trace in the warehouse.
notify(method, r) ==
    /\ notified' = [notified EXCEPT ![r][method] = @ + 1]
    /\ UNCHANGED escaped

\* report.error_msg of a failed job: names the source that failed.
error_msg == cur

\* download_started() that forwards the event without looking at the flag.
download_started_unchecked(r) ==
    /\ pc = "in_dispatch"
    /\ job[r] = "queued"
    /\ job' = [job EXCEPT ![r] = "started"]
    /\ UNCHANGED dlCancelled
    /\ IF ~hasListener THEN UNCHANGED listenerVars
       ELSE notify("started", r)
    /\ UNCHANGED <<configVars, catalogVars, cancelled, pc, refreshVars,
                   requestVars, collation, cur, round, dispatched, cancelPoint>>

download_started(r) ==
    /\ pc = "in_dispatch"
    /\ job[r] = "queued"
    /\ job' = [job EXCEPT ![r] = "started"]
    /\ IF cancelled
       THEN dlCancelled' = TRUE /\ UNCHANGED listenerVars
       ELSE /\ UNCHANGED dlCancelled
            /\ IF ~hasListener THEN UNCHANGED listenerVars
               ELSE notify("started", r)
    /\ UNCHANGED <<configVars, catalogVars, cancelled, pc, refreshVars,
                   requestVars, collation, cur, round, dispatched, cancelPoint>>

\* download_succeeded() that forwards the event without marking the Request.
download_succeeded_unmarked(r) ==
    /\ pc = "in_dispatch"
    /\ job[r] = "started"
    /\ job' = [job EXCEPT ![r] = "done"]
    /\ IF cancelled
       THEN dlCancelled' = TRUE /\ UNCHANGED listenerVars
       ELSE /\ UNCHANGED dlCancelled
            /\ IF ~hasListener THEN UNCHANGED listenerVars
               ELSE notify("succeeded", r)
    /\ UNCHANGED <<configVars, catalogVars, cancelled, pc, refreshVars,
                   requestVars, collation, cur, round, dispatched, cancelPoint>>

download_succeeded(r) ==
    /\ pc = "in_dispatch"
    /\ job[r] = "started"
    /\ job' = [job EXCEPT ![r] = "done"]
    /\ IF cancelled
       THEN dlCancelled' = TRUE /\ UNCHANGED <<downloaded, listenerVars>>
       ELSE /\ UNCHANGED dlCancelled
            /\ downloaded' = [downloaded EXCEPT ![r] = TRUE]
            /\ IF ~hasListener THEN UNCHANGED listenerVars
               ELSE notify("succeeded", r)
    /\ UNCHANGED <<configVars, catalogVars, cancelled, pc, refreshVars,
                   candidates, cursor, errors, collation, cur, round,
                   dispatched, cancelPoint>>

\* download_failed() that records the error only once the failure is final.
download_failed_records_last(r) ==
    /\ pc = "in_dispatch"
    /\ job[r] = "started"
    /\ job' = [job EXCEPT ![r] = "done"]
    /\ IF cancelled
       THEN dlCancelled' = TRUE /\ UNCHANGED <<errors, listenerVars>>
       ELSE /\ UNCHANGED dlCancelled
            /\ IF has_source(r) THEN UNCHANGED <<errors, listenerVars>>
               ELSE /\ errors' = [errors EXCEPT ![r] = Append(@, error_msg)]
                    /\ IF ~hasListener THEN UNCHANGED listenerVars
                       ELSE notify("failed", r)
    /\ UNCHANGED <<configVars, catalogVars, cancelled, pc, refreshVars,
                   candidates, cursor, downloaded, collation, cur, round,
                   dispatched, cancelPoint>>

\* download_failed() that forwards every failure, terminal or not.
download_failed_always_forwarded(r) ==
    /\ pc = "in_dispatch"
    /\ job[r] = "started"
    /\ job' = [job EXCEPT ![r] = "done"]
    /\ IF cancelled
       THEN dlCancelled' = TRUE /\ UNCHANGED <<errors, listenerVars>>
       ELSE /\ UNCHANGED dlCancelled
            /\ errors' = [errors EXCEPT ![r] = Append(@, error_msg)]
            /\ IF ~hasListener THEN UNCHANGED listenerVars
               ELSE notify("failed", r)
    /\ UNCHANGED <<configVars, catalogVars, cancelled, pc, refreshVars,
                   candidates, cursor, downloaded, collation, cur, round,
                   dispatched, cancelPoint>>

\* download_failed() that moves the Request on to its next candidate itself.
download_failed_advancing(r) ==
    /\ pc = "in_dispatch"
    /\ job[r] = "started"
    /\ job' = [job EXCEPT ![r] = "done"]
    /\ IF cancelled
       THEN dlCancelled' = TRUE /\ UNCHANGED <<errors, cursor, listenerVars>>
       ELSE /\ UNCHANGED dlCancelled
            /\ errors' = [errors EXCEPT ![r] = Append(@, error_msg)]
            /\ cursor' = [cursor EXCEPT ![r] = cursor_after_next_source(r)]
            /\ IF ~hasListener THEN UNCHANGED listenerVars
               ELSE IF has_source(r) THEN UNCHANGED listenerVars
               ELSE notify("failed", r)
    /\ UNCHANGED <<configVars, catalogVars, cancelled, pc, refreshVars,
                   candidates, downloaded, collation, cur, round,
                   dispatched, cancelPoint>>

\* download_failed(report): the error is recorded; the Listener hears of the
\* failure only when the Request has no candidate left.
download_failed(r) ==
    /\ pc = "in_dispatch"
    /\ job[r] = "started"
    /\ job' = [job EXCEPT ![r] = "done"]
    /\ IF cancelled
       THEN dlCancelled' = TRUE /\ UNCHANGED <<errors, listenerVars>>
       ELSE /\ UNCHANGED dlCancelled
            /\ errors' = [errors EXCEPT ![r] = Append(@, error_msg)]
            /\ IF ~hasListener THEN UNCHANGED listenerVars
               ELSE IF has_source(r) THEN UNCHANGED listenerVars
               ELSE notify("failed", r)
    /\ UNCHANGED <<configVars, catalogVars, cancelled, pc, refreshVars,
                   candidates, cursor, downloaded, collation, cur, round,
                   dispatched, cancelPoint>>

\* ------------------------------------------------------------- specification
Next ==
    \/ \E s \in Sources : expire(s)
    \/ cancel
    \/ refresh_entry
    \/ \E s \in Sources : refresh_source(s)
    \/ refresh_cancelled
    \/ refresh_finish
    \/ purge_orphans
    \/ download_entry
    \/ resolve_sources
    \/ loop_test
    \/ collate
    \/ \E s \in AllSources : dispatch(s)
    \/ dispatch_return
    \/ \E r \in Requests : download_started(r)
    \/ \E r \in Requests : download_succeeded(r)
    \/ \E r \in Requests : download_failed(r)

Spec == Init /\ [][Next]_vars

\* ------------------------------------------------------------- properties
\* Helpers for the properties below.
Last(seq) == seq[Len(seq)]
\* The sources a Request has been dispatched to, in order.
Attempts(r) == [i \in 1..Len(dispatched[r]) |-> dispatched[r][i].source]
\* Priority of a source, the primary being last.
PriorityOf(s) == IF s = Primary THEN NumSources + 1 ELSE priority[s]
\* The alternate sources among the candidates of a Request.
AlternatesOf(r) ==
    {candidates[r][i].source : i \in 1..Len(candidates[r])} \ {Primary}
\* The Requests with a job in the collation pairs still to be dispatched.
Collated ==
    UNION {batch_of(collation[s]) : s \in DOMAIN collation}

\* C1: in a run, the Listener receives at most one terminal notification
\* (download_succeeded or download_failed) for each Request.
C1_AtMostOneTerminalNotification ==
    \A r \in Requests : notified[r].succeeded + notified[r].failed <= 1

C1_Witness ==
    /\ pc = "done"
    /\ \E r \in Requests : notified[r].succeeded = 1 /\ Len(dispatched[r]) >= 2
    /\ \E r \in Requests : notified[r].failed = 1 /\ Len(dispatched[r]) >= 2

\* C2 as claimed: the sources a Request is dispatched to are strictly
\* ascending in priority, one dispatch per round, the primary only after
\* every alternate candidate.
C2_StrictlyAscendingPriority ==
    \A r \in Requests :
        \A i, j \in 1..Len(dispatched[r]) :
            i < j =>
                /\ PriorityOf(dispatched[r][i].source)
                       < PriorityOf(dispatched[r][j].source)
                /\ dispatched[r][i].round < dispatched[r][j].round
                /\ dispatched[r][j].source = Primary =>
                       AlternatesOf(r) \subseteq
                           {dispatched[r][k].source : k \in 1..(j - 1)}

\* C2 amended: the sources a Request is dispatched to are non-descending in
\* priority (strictly ascending wherever the priorities differ), no source
\* is dispatched twice for the Request, there is at most one dispatch of the
\* Request per round, and the primary is dispatched only after every
\* alternate candidate of the Request was dispatched in an earlier round.
C2_AscendingPriority ==
    \A r \in Requests :
        /\ \A i, j \in 1..Len(dispatched[r]) :
            i < j =>
                /\ PriorityOf(dispatched[r][i].source)
                       <= PriorityOf(dispatched[r][j].source)
                /\ dispatched[r][i].source # dispatched[r][j].source
                /\ dispatched[r][i].round < dispatched[r][j].round
        /\ \A j \in 1..Len(dispatched[r]) :
            dispatched[r][j].source = Primary =>
                AlternatesOf(r) \subseteq
                    {dispatched[r][k].source : k \in 1..(j - 1)}

C2_Witness ==
    \E r \in Requests :
        /\ Len(dispatched[r]) = 3
        /\ Last(dispatched[r]).source = Primary
        /\ priority[dispatched[r][1].source] < priority[dispatched[r][2].source]
        /\ dispatched[r][1].source > dispatched[r][2].source

\* C3: once a Request is downloaded it is never dispatched again: no
\* collation holds a job for it, its cursor does not move, and neither its
\* downloaded flag nor its errors change; no further source is contacted.
C3_DownloadedIsFinal ==
    [][\A r \in Requests :
          downloaded[r] =>
              /\ downloaded'[r]
              /\ cursor'[r] = cursor[r]
              /\ errors'[r] = errors[r]
              /\ dispatched'[r] = dispatched[r]
              /\ notified'[r] = notified[r]
              /\ r \notin Collated'
              /\ job'[r] \in {"none", "done"}]_vars

C3_Witness ==
    \E r \in Requests :
        /\ downloaded[r]
        /\ has_source(r)
        /\ pc = "done"
        /\ round > Last(dispatched[r]).round

\* C4: a failed event delivered for a Request that still has an untried
\* candidate is not forwarded; download_failed reaches the Listener only on
\* a failed event delivered when the Request has no remaining candidate.
C4_IntermediateFailuresSilent ==
    [][\A r \in Requests :
          /\ notified'[r].failed # notified[r].failed =>
                /\ job[r] = "started" /\ job'[r] = "done"
                /\ errors'[r] = Append(errors[r], cur)
                /\ ~has_source(r)
          /\ (errors'[r] # errors[r] /\ has_source(r)) =>
                notified'[r] = notified[r]]_vars

C4_Witness ==
    \E r \in Requests :
        /\ hasListener
        /\ errors[r] # <<>>
        /\ has_source(r)
        /\ job[r] = "done"
        /\ notified[r].failed = 0

\* C5: for a Request that no source succeeds on, in a run that is never
\* cancelled, the last candidate dispatched is the primary and
\* download_failed fires exactly once, when the primary attempt fails; at
\* that moment Request.errors holds one message per attempted candidate, in
\* the order of the attempts.
C5_PrimaryLastAndOneFailure ==
    [][\A r \in Requests :
          /\ notified'[r].failed # notified[r].failed =>
                /\ notified[r].failed = 0 /\ notified'[r].failed = 1
                /\ cur = Primary
                /\ Last(dispatched[r]).source = Primary
                /\ errors'[r] = Attempts(r)
          /\ (/\ pc' = "done" /\ op = "download"
              /\ cancelPoint'.pc = "never"
              /\ ~downloaded'[r]) =>
                /\ dispatched'[r] # <<>>
                /\ Last(dispatched'[r]).source = Primary
                /\ errors'[r] = [i \in 1..Len(dispatched'[r]) |->
                                     dispatched'[r][i].source]
                /\ hasListener => notified'[r].failed = 1]_vars

C5_Witness ==
    \E r \in Requests :
        /\ pc = "done"
        /\ cancelPoint.pc = "never"
        /\ ~downloaded[r]
        /\ notified[r].failed = 1
        /\ Len(errors[r]) = 3

\* C6 as claimed: a cancel() that lands after round 1 was dispatched and
\* before the collation of round 2 is built stops the run: no collation is
\* built, nothing is dispatched, no cursor moves, and download() returns.
CancelledAfterRound1(points) ==
    /\ cancelled
    /\ cancelPoint.round = 1
    /\ cancelPoint.pc \in points

C6_CancelBeforeCollationStops ==
    [][CancelledAfterRound1({"loop_test", "collate"}) =>
          /\ pc' = "done"
          /\ UNCHANGED <<cursor, collation, dispatched, round>>]_vars

\* C6 amended: a cancel() that lands after round 1 was dispatched and before
\* the loop tests the flag for round 2 stops the run: no collation is built,
\* nothing is dispatched, no cursor moves, and download() returns normally.
C6_CancelBeforeLoopTestStops ==
    [][CancelledAfterRound1({"loop_test"}) =>
          /\ pc' = "done"
          /\ UNCHANGED <<cursor, collation, dispatched, round, requestVars,
                         listenerVars>>]_vars

C6_Witness ==
    /\ pc = "done"
    /\ CancelledAfterRound1({"loop_test"})
    /\ round = 1
    /\ \E r \in Requests : ~downloaded[r] /\ has_source(r)

\* C7: a transport event (started, succeeded, failed) delivered while the
\* cancelled flag is set calls cancel() on the bound downloader and changes
\* nothing else: not the Request, not what the Listener has been told.
EventDelivered(r) ==
    \/ job[r] = "queued" /\ job'[r] = "started"
    \/ job[r] = "started" /\ job'[r] = "done"

C7_EventsIgnoredWhenCancelled ==
    [][\A r \in Requests :
          (cancelled /\ EventDelivered(r)) =>
              /\ dlCancelled'
              /\ UNCHANGED <<requestVars, listenerVars, cancelled, collation,
                             dispatched, round, pc>>]_vars

C7_Witness ==
    /\ pc = "in_dispatch"
    /\ cancelled
    /\ dlCancelled
    /\ hasListener
    /\ \E r \in Requests :
          /\ job[r] = "done"
          /\ ~downloaded[r]
          /\ errors[r] = <<>>
          /\ notified[r] = NoCalls

\* refresh() has returned.
RefreshReturned == result.kind # "pending"
\* refresh() saw the cancelled flag in its loop.
RefreshSawCancel == RefreshReturned /\ pending # {}

\* C8: when refresh() sees the cancellation in its loop over the sources,
\* it returns the list of the reports collected so far.
C8_CancelledRefreshReturnsReports ==
    RefreshSawCancel => (result.kind = "list" /\ result.reports = reports)

\* C9 as claimed: every return of refresh() is preceded by
\* catalog.purge_expired().
C9_RefreshAlwaysPurges ==
    RefreshReturned => result.purged

\* C9 amended: a refresh() whose loop has gone through every source, whether
\* or not some source raised, finishes by calling catalog.purge_expired();
\* a refresh() that sees the cancellation in its loop returns at once,
\* without the sweep.
C9_RefreshPurgesUnlessCancelled ==
    RefreshReturned => (result.purged <=> ~RefreshSawCancel)

C9_Witness ==
    /\ RefreshReturned
    /\ result.purged
    /\ \E s \in Sources : visited[s] = "raised"
    /\ \E s \in Sources : visited[s] = "skipped"

\* C10: an exception raised by a source's refresh() yields exactly one
\* report for that source, carrying the exception text; it does not end the
\* loop (only a cancellation does, so a refresh() that returns after its
\* loop has considered every source), and refresh() does not raise.
ReportsOf(s) == {i \in DOMAIN reports : reports[i].source_id = s}

C10_SourceExceptionContained ==
    /\ result.kind # "raised"
    /\ \A s \in Sources :
          visited[s] = "raised" =>
              /\ Cardinality(ReportsOf(s)) = 1
              /\ \A i \in ReportsOf(s) : reports[i].errors = <<ExcText>>
    /\ pc = "refresh_loop" =>
          pending = {s \in Sources : visited[s] = "no"}
    /\ (RefreshReturned /\ pending # {}) => cancelled
    /\ result.kind = "list" =>
          /\ \A s \in Sources : visited[s] # "no"
          /\ result.reports = reports

C10_Witness ==
    /\ result.kind = "list"
    /\ \E s, u \in Sources :
          /\ visited[s] = "raised"
          /\ visited[u] = "refreshed"
          /\ \E i, j \in DOMAIN reports :
                i < j /\ reports[i].source_id = s /\ reports[j].source_id = u

\* C11: an exception raised by a Listener callback is caught in the bridge
\* and never reaches the transport; the state change the handler made before
\* the callback (downloaded set, error appended) is kept, and the run goes
\* on: the job ends as usual, the dispatch is still in progress, neither the
\* flag nor the other jobs are touched.
ListenerCalled(r) == notified'[r] # notified[r]

C11_ListenerExceptionContained ==
    /\ [](~escaped)
    /\ [][\A r \in RaisingFor :
            ListenerCalled(r) =>
                /\ pc = "in_dispatch" /\ pc' = "in_dispatch"
                /\ notified'[r].succeeded # notified[r].succeeded =>
                      /\ downloaded'[r]
                      /\ job'[r] = "done"
                /\ notified'[r].failed # notified[r].failed =>
                      /\ errors'[r] = Append(errors[r], error_msg)
                      /\ job'[r] = "done"
                /\ notified'[r].started # notified[r].started =>
                      job'[r] = "started"
                /\ \A q \in Requests \ {r} : job'[q] = job[q]
                /\ UNCHANGED <<cancelled, dlCancelled, collation, cursor,
                               candidates, round>>]_vars

\* The Listener raised from download_started and download_succeeded of one
\* Request, which still ended downloaded, and the run went on to its end,
\* reporting the failure of another Request.
C11_Witness ==
    /\ pc = "done"
    /\ cancelPoint = NoCancel
    /\ \E r \in RaisingFor :
          /\ downloaded[r]
          /\ notified[r].succeeded = 1
          /\ Len(errors[r]) >= 1
    /\ \E q \in Requests \ RaisingFor :
          /\ notified[q].failed = 1
          /\ ~downloaded[q]

\* C12: purge_orphans() removes every catalog entry held under a source id
\* that is not a key of the registry, leaves the entries of the registered
\* sources as they were, and changes nothing of the registry.
PurgeOrphansReturns == op = "purge_orphans" /\ pc = "idle" /\ pc' = "done"

C12_PurgeOrphansFrame ==
    [][PurgeOrphansReturns =>
          /\ \A s \in CatalogIds \ Sources : catalog'[s] = {}
          /\ \A s \in Sources : catalog'[s] = catalog[s]
          /\ priority' = priority]_vars

C12_Witness ==
    /\ op = "purge_orphans"
    /\ pc = "done"
    /\ \A s \in Unregistered : catalog[s] = {}
    /\ \E s \in Sources : catalog[s] = Requests
    /\ \E s \in Sources : catalog[s] = {1}

\* C13: an entry written by refresh() for source S and unit U makes S a
\* candidate for U exactly while it is fresh.  Once it has outlived S's
\* expires window, has_entries(S) is false, candidate resolution leaves S
\* out and no round dispatches U to S; S's entries stop being stale only by
\* a refresh of S that rewrites them or by the sweep that removes them; and
\* the refresh pass of download() that was not cut short by a cancellation
\* leaves no stale entry behind for the candidate lists to be built from.
CandidateSources(r) ==
    {candidates[r][i].source : i \in DOMAIN candidates[r]} \ {Primary}

DispatchedSources(r) ==
    {dispatched[r][i].source : i \in DOMAIN dispatched[r]} \ {Primary}

Considered(s) == visited[s] = "no" /\ visited'[s] # "no"

C14_RefreshInvokedIffNeeded ==
    /\ [](\A s \in Sources : visited[s] = "skipped" => ReportsOf(s) = {})
    /\ [][\A s \in Sources :
            Considered(s) =>
                /\ ~cancelled
                /\ visited'[s] \in {"refreshed", "raised"} <=>
                       (force \/ ~has_entries(s))
                /\ visited'[s] \in {"refreshed", "raised"} =>
                       /\ Len(reports') = Len(reports) + 1
                       /\ Last(reports').source_id = s
                /\ visited'[s] = "skipped" =>
                       /\ has_entries(s)
                       /\ ~force
                       /\ UNCHANGED <<reports, catalog, stale>>]_vars

C14_Witness ==
    /\ result.kind = "list"
    /\ ~force
    /\ \E s, t \in Sources :
          /\ visited[s] = "skipped" /\ ReportsOf(s) = {}
          /\ visited[t] = "refreshed" /\ ReportsOf(t) # {}

\* C15: download() terminates, provided each dispatch returns.  Every
\* collation that is dispatched moves the cursor of each of its Requests one
\* candidate on, so the number of rounds never exceeds the length of the
\* longest candidate list (alternates with a fresh entry, plus the primary);
\* the collation built after that many rounds is empty and the loop exits.
\* Every step of download() and of the transport lowers a measure with
\* values in the naturals, so no run goes on forever.
RECURSIVE SumTo(_, _)
SumTo(f(_), n) == IF n = 0 THEN 0 ELSE f(n) + SumTo(f, n - 1)

Remaining(r) == Len(candidates[r]) - cursor[r]
JobSteps(r) == CASE job[r] = "queued" -> 2
                 [] job[r] = "started" -> 1
                 [] OTHER -> 0
RoundSpan == 3 + (NumSources + 1) * (2 * NumRequests + 2)
LoopSpan == RoundSpan * (NumRequests * (NumSources + 1) + 1)
Measure ==
    CASE pc = "done" -> 0
      [] pc = "collate" -> 1 + RoundSpan * SumTo(Remaining, NumRequests)
      [] pc = "loop_test" -> 2 + RoundSpan * SumTo(Remaining, NumRequests)
      [] pc = "dispatch" ->
            3 + RoundSpan * SumTo(Remaining, NumRequests)
              + Cardinality(DOMAIN collation) * (2 * NumRequests + 2)
      [] pc = "in_dispatch" ->
            4 + RoundSpan * SumTo(Remaining, NumRequests)
              + Cardinality(DOMAIN collation) * (2 * NumRequests + 2)
              + SumTo(JobSteps, NumRequests)
      [] pc = "find_sources" -> LoopSpan + 1
      [] pc = "refresh_loop" -> LoopSpan + 2 + Cardinality(pending)
      [] pc = "refresh_entry" -> LoopSpan + 3 + NumSources
      [] OTHER -> LoopSpan + 4 + NumSources

LongestCandidateList ==
    CHOOSE n \in 0..(NumSources + 1) :
        /\ \A r \in Requests : Len(candidates[r]) <= n
        /\ \E r \in Requests : Len(candidates[r]) = n

\* A step of the operation or of the transport: not cancel(), not the
\* passing of time before the call.
ProgramStep == cancelPoint' = cancelPoint /\ pc # "idle" /\ op = "download"

C15_DownloadTerminates ==
    /\ [](/\ round <= LongestCandidateList
          /\ pc = "dispatch" => DOMAIN collation # {})
    /\ [][/\ ProgramStep => Measure' < Measure
          /\ round' # round =>
                /\ pc = "collate"
                /\ round' = round + 1
                /\ DOMAIN collation' # {}
                /\ \A s \in DOMAIN collation' :
                      \A r \in batch_of(collation'[s]) :
                          cursor'[r] = cursor[r] + 1
          /\ (pc = "collate" /\ pc' # pc /\ round = LongestCandidateList) =>
                /\ DOMAIN collation' = {}
                /\ pc' = "done"]_vars

C15_Witness ==
    /\ pc = "done"
    /\ op = "download"
    /\ cancelPoint = NoCancel
    /\ round = NumSources + 1
    /\ round = LongestCandidateList

\* C16: when download() has returned from a run in which cancel() was never
\* called (each dispatched job having had exactly one outcome event), every
\* Request is terminal: it is downloaded, or it has no candidate left, is
\* not downloaded and carries an error for each candidate it was tried on.
DownloadReturned == op = "download" /\ pc = "done"

C16_EveryRequestTerminal ==
    (DownloadReturned /\ cancelPoint = NoCancel) =>
        \A r \in Requests :
            \/ downloaded[r]
            \/ /\ ~downloaded[r]
               /\ ~has_source(r)
               /\ errors[r] # <<>>
               /\ Len(errors[r]) = Len(candidates[r])

C16_Witness ==
    /\ DownloadReturned
    /\ cancelPoint = NoCancel
    /\ \E r, q \in Requests :
          /\ downloaded[r] /\ has_source(r) /\ errors[r] # <<>>
          /\ ~downloaded[q] /\ ~has_source(q) /\ Len(errors[q]) >= 2

\* C17: a Request's cursor never moves back and is moved, one candidate at a
\* time, only by the collation pass that puts the Request into a batch; the
\* failure handler appends the error and leaves the cursor, the collation
\* and the dispatches alone; so a Request that failed on one source is sent
\* to its next candidate in a later round than the failed attempt, never in
\* the same one.
InSomeBatch(r, c) == \E s \in DOMAIN c : r \in batch_of(c[s])

C17_CursorMovedOnlyByCollation ==
    [][\A r \in Requests :
          /\ cursor'[r] >= cursor[r]
          /\ cursor'[r] # cursor[r] =>
                /\ pc = "collate"
                /\ cursor'[r] = cursor[r] + 1
                /\ InSomeBatch(r, collation')
          /\ errors'[r] # errors[r] =>
                /\ errors'[r] = Append(errors[r], error_msg)
                /\ UNCHANGED <<cursor, candidates, collation, dispatched,
                               round>>
          /\ dispatched'[r] # dispatched[r] =>
                /\ pc = "dispatch"
                /\ dispatched'[r] =
                      Append(dispatched[r],
                             [source |-> candidates[r][cursor[r]].source,
                              round |-> round])
                /\ dispatched[r] # <<>> =>
                      /\ Last(dispatched[r]).round < round
                      /\ Len(errors[r]) = Len(dispatched[r])]_vars

C17_Witness ==
    /\ pc = "in_dispatch"
    /\ round = 2
    /\ \E r \in Requests :
          /\ cursor[r] = 2
          /\ Len(errors[r]) = 1
          /\ Len(dispatched[r]) = 2
          /\ dispatched[r][1].round = 1
          /\ dispatched[r][2].round = 2
          /\ dispatched[r][1].source # dispatched[r][2].source

\* C18: each collation partitions the Requests that are still pending: a
\* Request that is not downloaded and has a candidate left is in exactly one
\* job of exactly one source's list, the source being its next candidate,
\* the job carrying that candidate's address and the Request as data; a
\* Request that is downloaded or has no candidate left is in no job; no
\* source is mapped to an empty list.  Rounds are sequential: a collation is
\* built only when every pair of the one before has been dispatched and
\* every dispatch has returned.
JobsOf(r, c) ==
    {<<s, i>> \in (DOMAIN c) \X (1..NumRequests) :
        i \in DOMAIN c[s] /\ c[s][i].data = r}

C18_CollationPartitionsPending ==
    /\ [](pc \in {"loop_test", "collate"} =>
            /\ DOMAIN collation = {}
            /\ \A r \in Requests : job[r] = "none")
    /\ [][(pc = "collate" /\ pc' # pc) =>
            /\ \A r \in Requests :
                  IF ~downloaded[r] /\ has_source(r)
                  THEN /\ Cardinality(JobsOf(r, collation')) = 1
                       /\ \A j \in JobsOf(r, collation') :
                             /\ j[1] = candidates[r][cursor[r] + 1].source
                             /\ collation'[j[1]][j[2]].url =
                                    candidates[r][cursor[r] + 1].url
                  ELSE JobsOf(r, collation') = {}
            /\ \A s \in DOMAIN collation' :
                  /\ s \in AllSources
                  /\ collation'[s] # <<>>
                  /\ Len(collation'[s]) <= NumRequests]_vars

C18_Witness ==
    /\ pc = "dispatch"
    /\ round = 2
    /\ \E r, q \in Requests :
          /\ downloaded[r]
          /\ has_source(r)
          /\ JobsOf(r, collation) = {}
          /\ ~downloaded[q]
          /\ Len(errors[q]) = 1
          /\ Cardinality(JobsOf(q, collation)) = 1

\* C19 as stated: within one download() call, once the initial reset() has
\* run, a flag that is set stays set until download() returns, and no round
\* is started while it is set.
C19_CancelStaysInEffect ==
    [][(op = "download" /\ pc \notin {"idle", "done"} /\ cancelled) =>
          (cancelled' /\ round' = round)]_vars

\* C19: within one download() call the flag is cleared twice, by the reset()
\* at the start of download() and by the reset() with which the refresh() it
\* calls begins, and by nothing else.  A cancel() issued after the second of
\* them stays in effect until download() returns, and no round is started
\* while the flag is set, except the one whose loop test had already passed
\* when cancel() was called.
C19_CancelStaysAfterRefreshReset ==
    [][/\ (cancelled /\ ~cancelled') => pc \in {"idle", "refresh_entry"}
       /\ (op = "download" /\ cancelled
             /\ pc \notin {"idle", "refresh_entry", "done"}) =>
               /\ cancelled'
               /\ round' # round =>
                     /\ cancelPoint.pc = "collate"
                     /\ cancelPoint.round = round]_vars

\* cancel() was called while the refresh pass of download() was looping over
\* the sources; download() has returned without a round.
C19_Witness ==
    /\ op = "download"
    /\ pc = "done"
    /\ cancelled
    /\ cancelPoint.pc = "refresh_loop"
    /\ round = 0
    /\ \A r \in Requests : dispatched[r] = <<>> /\ candidates[r] # <<>>

\* C20: the flag is not consulted between the dispatches of a round.  From
\* between two pairs the loop only goes into the next dispatch, set flag or
\* not, so every pair of a collation is dispatched and every cursor the
\* collation moved has its dispatch.  When cancel() came during the round,
\* with pairs still to be dispatched, each of those pairs was dispatched all
\* the same, and its Requests end the run not downloaded, their cursor on
\* the candidate of that attempt and no error recorded for it.
DispatchedTo(r, s, n) ==
    \E i \in DOMAIN dispatched[r] :
        dispatched[r][i] = [source |-> s, round |-> n]

CancelledInRound == cancelled /\ cancelPoint.pc \in {"dispatch", "in_dispatch"}

C20_RoundDispatchedInFull ==
    /\ [](/\ pc \in {"loop_test", "done"} =>
                \A r \in Requests : cursor[r] = Len(dispatched[r])
          /\ (DownloadReturned /\ CancelledInRound) =>
                /\ round = cancelPoint.round
                /\ \A s \in cancelPoint.left :
                      \E r \in Requests : DispatchedTo(r, s, round)
                /\ \A r \in Requests : \A s \in cancelPoint.left :
                      DispatchedTo(r, s, round) =>
                          /\ ~downloaded[r]
                          /\ cursor[r] = Len(dispatched[r])
                          /\ Len(errors[r]) = Len(dispatched[r]) - 1)
    /\ [][(pc = "dispatch" /\ pc' # pc) =>
            /\ pc' = "in_dispatch"
            /\ \E s \in DOMAIN collation :
                  /\ DOMAIN collation' = DOMAIN collation \ {s}
                  /\ \A r \in batch_of(collation[s]) :
                        DispatchedTo(r, s, round)']_vars

C20_Witness ==
    /\ DownloadReturned
    /\ cancelPoint.pc = "in_dispatch"
    /\ cancelPoint.round = 2
    /\ \E s \in cancelPoint.left : \E r \in Requests :
          /\ DispatchedTo(r, s, 2)
          /\ ~downloaded[r]
          /\ cursor[r] = 2
          /\ Len(errors[r]) = 1

====
